---- MODULE Spec2Model ----
(***************************************************************************)
(* Model of the CollabVM plugin manager (src/src/core/PluginManager.cpp):  *)
(* the library list g_PluginSos, the registry g_ServerPlugins, the         *)
(* handshake templates PluginHandshake / HandlePluginLoad and the three    *)
(* operations PluginManager::Init, ::LoadPlugin and ::UnloadPlugins.       *)
(*                                                                         *)
(* Every resolution of an export, every call into a module and every       *)
(* return of PluginHandshake made by the latest operation is recorded in   *)
(* `trace`; every spdlog line that operation wrote is recorded in `log`.   *)
(*                                                                         *)
(* The configuration store the host uses next to it (ConfigStore, of which *)
(* the repository's tests are at hand, src/server/test/core/               *)
(* ConfigStore.cpp) is modelled by `store` and the specification           *)
(* SpecStore.                                                              *)
(***************************************************************************)
EXTENDS Integers, Sequences, FiniteSets, TLC

\* ----------------------------------------------------------------- bounds
\* The work done in one behaviour: every LoadPlugin execution counts one,
\* and so does every operation that executes none.
MaxWork == 2

\* -------------------------------------------------------------- constants
PLUGIN_ABI_VERSION == 1
SaneSize == 5

Null == [mod |-> "null", id |-> -1]     \* a null IServerPlugin*
NullFn == "nullptr"                    \* a null function pointer
Threw == "Threw"
EmptySo == "empty"

PluginLoadError ==
    {"NoError", "NotPlugin", "AbiMismatch", "ExportNotFound",
     "NotServerPlugin", "NotCorePlugin"}

\* What a caller can read after control flowed off the end of a function
\* that returns PluginLoadError.  LoadPlugin's switch tells ExportNotFound
\* and AbiMismatch from everything else, so NoError stands for every other
\* bit pattern.
Indeterminate == {"NoError", "ExportNotFound", "AbiMismatch"}

SymAbi == "collabvm_plugin_abi_version"
SymInit == "collabvm_plugin_init_api"
SymMake == "collabvm_plugin_make_serverplugin"
SymDelete == "collabvm_plugin_delete_serverplugin"

AllExports == {SymAbi, SymInit, SymMake, SymDelete}

\* ------------------------------------------------- the candidate files
\* A candidate file of the plugins directory: whether the platform can map
\* it, the symbols it exports, the version its abi_version reports, and
\* what its factory hands back (null, the same object every time, or a
\* fresh object per call).
Module(loadable, exports, abi, makeNull, singleton) ==
    [loadable |-> loadable, exports |-> exports, abi |-> abi,
     makeNull |-> makeNull, singleton |-> singleton]

Paths ==
    {"good", "single", "nullfac", "noabi", "badabi", "noinit", "nomake",
     "nodelete", "notlib"}

ModuleDef(p) ==
    CASE p = "good"     -> Module(TRUE, AllExports, PLUGIN_ABI_VERSION, FALSE, FALSE)
      [] p = "single"   -> Module(TRUE, AllExports, PLUGIN_ABI_VERSION, FALSE, TRUE)
      [] p = "nullfac"  -> Module(TRUE, AllExports, PLUGIN_ABI_VERSION, TRUE, FALSE)
      [] p = "noabi"    -> Module(TRUE, AllExports \ {SymAbi}, PLUGIN_ABI_VERSION, FALSE, FALSE)
      [] p = "badabi"   -> Module(TRUE, AllExports, PLUGIN_ABI_VERSION + 1, FALSE, FALSE)
      [] p = "noinit"   -> Module(TRUE, AllExports \ {SymInit}, PLUGIN_ABI_VERSION, FALSE, FALSE)
      [] p = "nomake"   -> Module(TRUE, AllExports \ {SymMake}, PLUGIN_ABI_VERSION, FALSE, FALSE)
      [] p = "nodelete" -> Module(TRUE, AllExports \ {SymDelete}, PLUGIN_ABI_VERSION, FALSE, FALSE)
      [] OTHER          -> Module(FALSE, {}, 0, FALSE, FALSE)

VARIABLES
    g_PluginSos,      \* std::vector<boost::dll::shared_library>
    g_ServerPlugins,  \* std::vector<plugin::IServerPlugin*>
    made,             \* objects the modules' factories have constructed so far
    trace,            \* latest operation: resolutions, foreign calls, returns
    log,              \* latest operation: spdlog lines
    loads,            \* latest operation: one record per LoadPlugin execution
    op,               \* latest operation: name, arguments, result
    work              \* work done so far (see MaxWork)

VARIABLES
    store,            \* ConfigStore: key -> [type, val], for the keys that exist
    storeOp,          \* latest ConfigStore operation: name, arguments, result
    wasSet            \* the keys that have been Set at some time

pluginVars == <<g_PluginSos, g_ServerPlugins, made, trace, log, loads, op, work>>

storeVars == <<store, storeOp, wasSet>>

vars == <<pluginVars, storeVars>>

\* ------------------------------------------------------------- helpers
\* the one element of a singleton set: The({e(x) : x \in {v}}) is e(v)
\* with v computed once
The(S) == CHOOSE x \in S : TRUE

Ev(lid, so, k, sym, val) ==
    [lid |-> lid, mod |-> so, k |-> k, sym |-> sym, val |-> val, obj |-> Null]

\* a call of the factory, with the object it handed back
EvMake(lid, so, plugin) ==
    [lid |-> lid, mod |-> so, k |-> "call", sym |-> SymMake,
     val |-> IF plugin = Null THEN "null" ELSE "object", obj |-> plugin]

LogLine(level, what, path) == [level |-> level, what |-> what, path |-> path]

KindOf(core, ctrl) ==
    IF ~core /\ ~ctrl THEN "Server"
    ELSE IF core THEN "Core"
    ELSE "Controller"

\* boost::dll::shared_library::get<T>(name): a reference to the symbol;
\* throws boost::system::system_error when the library has no such symbol
\* (it never yields a null pointer).
SoGet(so, sym) ==
    IF sym \in ModuleDef(so).exports THEN "fn" ELSE "throws"

\* the argument of collabvm_plugin_init_api: &g_PluginApiImpl, the one
\* static PluginApiImpl
ApiTablePerModule(so) == so

ApiTable(so) == "g_PluginApiImpl"

AbiMatchesAlways(v) == TRUE

AbiMatches(v) == v = PLUGIN_ABI_VERSION

\* the exports the Server-kind probe resolves before it tests them
ServerExportsFactoryOnly == <<SymMake>>

ServerExports == <<SymMake, SymDelete>>

\* collabvm_plugin_make_serverplugin(): the module's factory hands back
\* null, its one static object (id 0), or a newly constructed object
CallFactory(mk, so) ==
    IF ModuleDef(so).makeNull THEN Null
    ELSE [mod |-> so, id |-> IF ModuleDef(so).singleton THEN 0 ELSE mk + 1]

\* the count of constructed objects after the factory handed back `plugin`
MadeAfter(mk, so, plugin) ==
    IF plugin = Null \/ ModuleDef(so).singleton THEN mk ELSE mk + 1

\* g_ServerPlugins.push_back(plugin): an element of the registry is the
\* IServerPlugin* and nothing else
PushPluginSkipped(plugins, plugin) == plugins

PushPlugin(plugins, plugin) == Append(plugins, [plugin |-> plugin])

\* a return (or throw) of PluginHandshake, recorded in the trace
HsReturn(tr, plugins, mk, lid, so, kind, res) ==
    [trace |-> Append(tr, Ev(lid, so, "ret", kind, res)),
     plugins |-> plugins, made |-> mk, res |-> res]

\* resolve the symbols of `syms` in order; stops at the first that throws
RECURSIVE ResolveAll(_, _, _, _)
ResolveAll(tr, lid, so, syms) ==
    IF syms = <<>> THEN [trace |-> tr, ok |-> TRUE]
    ELSE LET r == SoGet(so, Head(syms))
             t == Append(tr, Ev(lid, so, "resolve", Head(syms), r))
         IN IF r = "throws" THEN [trace |-> t, ok |-> FALSE]
            ELSE ResolveAll(t, lid, so, Tail(syms))

\* ------------------------------------------------------ PluginHandshake
ServerProbe(tr, plugins, mk, lid, so) ==
    The({
       IF ~rs.ok THEN HsReturn(rs.trace, plugins, mk, lid, so, "Server", Threw)
       ELSE LET plugin == CallFactory(mk, so)
                mk2 == MadeAfter(mk, so, plugin)
                t == Append(rs.trace, EvMake(lid, so, plugin))
            IN IF plugin = Null
               THEN HsReturn(t, plugins, mk2, lid, so, "Server", "NotServerPlugin")
               ELSE HsReturn(t, PushPlugin(plugins, plugin), mk2, lid, so,
                             "Server", "NoError")
       : rs \in {ResolveAll(tr, lid, so, ServerExports)} })

PluginHandshake(tr, plugins, mk, lid, so, core, ctrl) ==
    LET kind == KindOf(core, ctrl)
        abi == SoGet(so, SymAbi)
        t1 == Append(tr, Ev(lid, so, "resolve", SymAbi, abi))
    IN IF abi = "throws" THEN HsReturn(t1, plugins, mk, lid, so, kind, Threw)
       ELSE IF abi = NullFn THEN HsReturn(t1, plugins, mk, lid, so, kind, "NotPlugin")
       ELSE
        LET t2 == Append(t1, Ev(lid, so, "call", SymAbi, ToString(ModuleDef(so).abi)))
        IN IF ~AbiMatches(ModuleDef(so).abi)
           THEN HsReturn(t2, plugins, mk, lid, so, kind, "AbiMismatch")
           ELSE
            LET init == SoGet(so, SymInit)
                t3 == Append(t2, Ev(lid, so, "resolve", SymInit, init))
            IN IF init = "throws"
               THEN HsReturn(t3, plugins, mk, lid, so, kind, Threw)
               ELSE IF init = NullFn
               THEN HsReturn(t3, plugins, mk, lid, so, kind, "ExportNotFound")
               ELSE
                LET t4 == Append(t3, Ev(lid, so, "call", SymInit, ApiTable(so)))
                IN IF kind = "Server"
                   THEN ServerProbe(t4, plugins, mk, lid, so)
                   ELSE HsReturn(t4, plugins, mk, lid, so, kind, "NoError")

\* ----------------------------------------------------- HandlePluginLoad
\* `ub` is the value the caller reads when control flows off the end of
\* the function (the NoError path has no return statement).
RECURSIVE HandlePluginLoad(_, _, _, _, _, _, _, _)
HandlePluginLoadRetriesServer(tr, plugins, mk, lid, so, core, ctrl, ub) ==
    The({
       IF h.res = "NotServerPlugin"
       THEN PluginHandshake(h.trace, h.plugins, h.made, lid, so, FALSE, FALSE)
       ELSE IF h.res = "NoError"
       THEN [trace |-> h.trace, plugins |-> h.plugins, made |-> h.made, res |-> ub]
       ELSE h
       : h \in {PluginHandshake(tr, plugins, mk, lid, so, core, ctrl)} })

HandlePluginLoad(tr, plugins, mk, lid, so, core, ctrl, ub) ==
    The({
       IF h.res = Threw THEN h
       ELSE IF h.res # "NoError"
       THEN CASE h.res = "NotServerPlugin" ->
                    HandlePluginLoad(h.trace, h.plugins, h.made, lid, so, TRUE, FALSE, ub)
              [] h.res = "NotCorePlugin" ->
                    HandlePluginLoad(h.trace, h.plugins, h.made, lid, so, FALSE, TRUE, ub)
              [] OTHER -> h
       ELSE [trace |-> Append(h.trace, Ev(lid, so, "falloff", KindOf(core, ctrl), ub)),
             plugins |-> h.plugins, made |-> h.made, res |-> ub]
       : h \in {PluginHandshake(tr, plugins, mk, lid, so, core, ctrl)} })

\* ------------------------------------------------------------ LoadPlugin
\* The whole state is threaded through as a record so that Init can run
\* LoadPlugin once per directory entry.
State(sos, plugins, mk, tr, lg, lds) ==
    [sos |-> sos, plugins |-> plugins, made |-> mk, trace |-> tr, log |-> lg,
     loads |-> lds]

\* what one LoadPlugin execution did: the value HandlePluginLoad delivered,
\* what LoadPlugin returned, and the registry's length before and after
LoadRec(lid, path, res, ret, before, after) ==
    [lid |-> lid, path |-> path, res |-> res, ret |-> ret,
     before |-> before, after |-> after]

LoadPlugin(st, path, ub) ==
    LET lid == Len(st.loads) + 1
    IN IF ~ModuleDef(path).loadable
       THEN \* the shared_library constructor throws; nothing is emplaced
            [st EXCEPT !.loads = Append(@,
                LoadRec(lid, path, "none", Threw,
                        Len(st.plugins), Len(st.plugins)))]
       ELSE The({
        LET sos == Append(st.sos, path)
            ret == CASE h.res = Threw -> Threw
                     [] h.res = "ExportNotFound" -> "false"
                     [] h.res = "AbiMismatch" -> "false"
                     [] OTHER -> "true"
            lg == CASE h.res = "ExportNotFound" ->
                          Append(st.log, LogLine("error", "not a server plugin", path))
                    [] h.res = "AbiMismatch" ->
                          Append(st.log, LogLine("error", "abi mismatch", path))
                    [] OTHER -> st.log
        IN State(sos, h.plugins, h.made, h.trace, lg,
                 Append(st.loads, LoadRec(lid, path, h.res, ret,
                                          Len(st.plugins), Len(h.plugins))))
        : h \in {HandlePluginLoad(st.trace, st.plugins, st.made, lid, path,
                                  FALSE, FALSE, ub)} })

LastRet(st) == st.loads[Len(st.loads)].ret

\* ------------------------------------------------------------------ Init
\* std::vector::resize(n): truncate, or pad with default-constructed items
Resize(sos, n) ==
    IF Len(sos) >= n THEN SubSeq(sos, 1, n)
    ELSE sos \o [i \in 1..(n - Len(sos)) |-> EmptySo]

\* the range-for over the directory: stops when LoadPlugin throws
RECURSIVE InitLoop(_, _, _)
InitLoop(st, dir, ubs) ==
    IF dir = <<>> THEN [st |-> st, ret |-> "true"]
    ELSE The({
            IF LastRet(s2) = Threw THEN [st |-> s2, ret |-> Threw]
            ELSE IF LastRet(s2) = "false"
            THEN InitLoop([s2 EXCEPT !.log =
                              Append(@, LogLine("warn", "failed to load", Head(dir)))],
                          Tail(dir), Tail(ubs))
            ELSE InitLoop(s2, Tail(dir), Tail(ubs))
         : s2 \in {LoadPlugin([st EXCEPT !.log =
                        Append(@, LogLine("info", "going to load", Head(dir)))],
                               Head(dir), Head(ubs))} })

\* fs: "exists" (the plugins directory is there), "created" (it was absent
\* and create_directory made it), "createFails" (create_directory throws)
PluginManagerInitNoCreate(st, fs, dir, ubs) ==
    LET s0 == [st EXCEPT !.sos = Resize(@, SaneSize)]
    IN IF fs # "exists" THEN [st |-> s0, ret |-> Threw]
       ELSE InitLoop(s0, dir, ubs)

PluginManagerInit(st, fs, dir, ubs) ==
    LET s0 == [st EXCEPT !.sos = Resize(@, SaneSize)]
        s1 == IF fs = "exists" THEN s0
              ELSE [s0 EXCEPT !.log =
                        Append(@, LogLine("info", "creating folder", "plugins"))]
    IN IF fs = "createFails" THEN [st |-> s1, ret |-> Threw]
       ELSE InitLoop(s1, dir, ubs)

\* ------------------------------------------------------- UnloadPlugins
UnloadPlugins(st) ==
    [st EXCEPT !.log = Append(@, LogLine("info", "UnloadPlugins: TODO", "-"))]

\* --------------------------------------------------------- state machine
\* the state an operation starts from: the globals, and an empty record of
\* what the operation did
Cur == State(g_PluginSos, g_ServerPlugins, made, <<>>, <<>>, <<>>)

Install(st) ==
    /\ g_PluginSos' = st.sos
    /\ g_ServerPlugins' = st.plugins
    /\ made' = st.made
    /\ trace' = st.trace
    /\ log' = st.log
    /\ loads' = st.loads
    /\ work' = work + (IF st.loads = <<>> THEN 1 ELSE Len(st.loads))
    /\ UNCHANGED storeVars

\* ----------------------------------------------------------- ConfigStore
\* the keys, value types and payloads the store is exercised with
Keys == {"value", "abc"}

Types == {"bool", "string", "uint64", "int64"}

Payloads == {0, 32}

EmptyStore == [k \in {} |-> [type |-> "bool", val |-> 0]]

StoreOpRec(name, key, type, result, val) ==
    [name |-> name, key |-> key, type |-> type, result |-> result, val |-> val]

\* store[key].Set<T>(value): creates or overwrites the value
ConfigSet(st, key, type, val) ==
    [k \in DOMAIN st \cup {key} |->
        IF k = key THEN [type |-> type, val |-> val] ELSE st[k]]

\* store[key].Remove()
ConfigRemoveNothing(st, key) == st

ConfigRemove(st, key) == [k \in DOMAIN st \ {key} |-> st[k]]

\* store[key].Exists()
ConfigExists(st, key) == IF key \in DOMAIN st THEN "true" ELSE "false"

\* store[key].Is<T>()
ConfigIs(st, key, type) ==
    IF key \in DOMAIN st /\ st[key].type = type THEN "true" ELSE "false"

\* store[key].As<T>(): the value, or the exception it fails with
ConfigAsMismatchIsNonExistent(st, key, type) ==
    IF key \in DOMAIN st /\ st[key].type = type
    THEN [result |-> "ok", val |-> st[key].val]
    ELSE [result |-> "NonExistentValue", val |-> 0]

ConfigAs(st, key, type) ==
    IF key \notin DOMAIN st THEN [result |-> "NonExistentValue", val |-> 0]
    ELSE IF st[key].type # type THEN [result |-> "InvalidType", val |-> 0]
    ELSE [result |-> "ok", val |-> st[key].val]

OpRec(name, ret, fs, dir, sosBefore, regBefore) ==
    [name |-> name, ret |-> ret, fs |-> fs, dir |-> dir,
     sosBefore |-> sosBefore, regBefore |-> regBefore]

\* directory listings of at most n entries: sequences of distinct paths
Listings(n) ==
    {d \in UNION {[1..k -> Paths] : k \in 0..n} :
        \A i, j \in DOMAIN d : i # j => d[i] # d[j]}

Init ==
    /\ g_PluginSos = <<>>
    /\ g_ServerPlugins = <<>>
    /\ made = 0
    /\ trace = <<>>
    /\ log = <<>>
    /\ loads = <<>>
    /\ op = OpRec("none", "void", "exists", <<>>, <<>>, <<>>)
    /\ work = 0
    /\ store = EmptyStore
    /\ storeOp = StoreOpRec("none", "abc", "bool", "none", 0)
    /\ wasSet = {}

DoInit ==
    /\ work < MaxWork
    /\ \E fs \in {"exists", "created", "createFails"} :
       \E dir \in Listings(MaxWork - work) :
         /\ fs # "exists" => dir = <<>>
         /\ \E ubs \in [1..Len(dir) -> Indeterminate] :
              \E r \in {PluginManagerInit(Cur, fs, dir, ubs)} :
                 /\ Install(r.st)
                 /\ op' = OpRec("Init", r.ret, fs, dir, g_PluginSos, g_ServerPlugins)

DoLoadPlugin ==
    /\ work < MaxWork
    /\ \E path \in Paths : \E ub \in Indeterminate :
         \E s \in {LoadPlugin(Cur, path, ub)} :
            /\ Install(s)
            /\ op' = OpRec("LoadPlugin", LastRet(s), "exists", <<path>>,
                           g_PluginSos, g_ServerPlugins)

DoUnloadPlugins ==
    /\ work < MaxWork
    /\ \E s \in {UnloadPlugins(Cur)} : Install(s)
    /\ op' = OpRec("UnloadPlugins", "void", "exists", <<>>,
                   g_PluginSos, g_ServerPlugins)

Next == DoInit \/ DoLoadPlugin \/ DoUnloadPlugins

Spec == Init /\ [][Next]_vars

\* the ConfigStore on its own
DoSet ==
    \E key \in Keys : \E type \in Types : \E val \in Payloads :
        /\ store' = ConfigSet(store, key, type, val)
        /\ storeOp' = StoreOpRec("Set", key, type, "ok", val)
        /\ wasSet' = wasSet \cup {key}
        /\ UNCHANGED pluginVars

DoRemove ==
    \E key \in Keys :
        /\ store' = ConfigRemove(store, key)
        /\ storeOp' = StoreOpRec("Remove", key, "bool", "ok", 0)
        /\ UNCHANGED <<wasSet, pluginVars>>

DoExists ==
    \E key \in Keys :
        /\ storeOp' = StoreOpRec("Exists", key, "bool", ConfigExists(store, key), 0)
        /\ UNCHANGED <<store, wasSet, pluginVars>>

DoIs ==
    \E key \in Keys : \E type \in Types :
        /\ storeOp' = StoreOpRec("Is", key, type, ConfigIs(store, key, type), 0)
        /\ UNCHANGED <<store, wasSet, pluginVars>>

DoAs ==
    \E key \in Keys : \E type \in Types :
        /\ storeOp' = StoreOpRec("As", key, type,
                                 ConfigAs(store, key, type).result,
                                 ConfigAs(store, key, type).val)
        /\ UNCHANGED <<store, wasSet, pluginVars>>

StoreNext == DoSet \/ DoRemove \/ DoExists \/ DoIs \/ DoAs

SpecStore == Init /\ [][StoreNext]_vars

\* ================================================================ claims
\* positions of the latest operation's trace, by load, event and symbol
EvIdx(lid, k, sym) ==
    {i \in DOMAIN trace :
        trace[i].lid = lid /\ trace[i].k = k /\ trace[i].sym = sym}

\* the returns of PluginHandshake during load `lid`, in order
Returns(lid) ==
    LET IsRet(e) == e.lid = lid /\ e.k = "ret" IN SelectSeq(trace, IsRet)

\* the kinds probed during load `lid`, in order
KindsProbed(lid) == [i \in DOMAIN Returns(lid) |-> Returns(lid)[i].sym]

\* the outcomes of those probes, in order
Outcomes(lid) == [i \in DOMAIN Returns(lid) |-> Returns(lid)[i].val]

Lids == DOMAIN loads

Def(lid) == ModuleDef(loads[lid].path)

Touched(lid, sym) == EvIdx(lid, "resolve", sym) \cup EvIdx(lid, "call", sym)

\* ------------------------------------------------------------------ C1
\* C1 (as claimed): within one LoadPlugin, init_api is invoked at most once,
\* kind re-probes included, and before every factory invocation.
C1_InitApiAtMostOnce ==
    \A l \in Lids :
        /\ Cardinality(EvIdx(l, "call", SymInit)) <= 1
        /\ \A i \in EvIdx(l, "call", SymMake) :
              \E j \in EvIdx(l, "call", SymInit) : j < i

\* ------------------------------------------------------------------ C2
\* C2: a module whose abi_version reports another version than the host's
\* ends its handshake with AbiMismatch, and neither init_api nor the
\* factory nor the destructor is resolved or invoked for it.
C2_AbiMismatchTouchesNothing ==
    \A l \in Lids :
        (/\ Def(l).loadable
         /\ SymAbi \in Def(l).exports
         /\ Def(l).abi # PLUGIN_ABI_VERSION)
        => /\ Outcomes(l) = <<"AbiMismatch">>
           /\ loads[l].res = "AbiMismatch"
           /\ \A sym \in AllExports \ {SymAbi} : Touched(l, sym) = {}

C2_Witness ==
    \E l \in Lids :
        /\ Def(l).abi # PLUGIN_ABI_VERSION
        /\ \E i \in EvIdx(l, "call", SymAbi) :
              trace[i].val # ToString(PLUGIN_ABI_VERSION)
        /\ loads[l].res = "AbiMismatch"

\* ------------------------------------------------------------------ C3
\* C3 (as claimed): a module lacking abi_version ends its handshake with
\* NotPlugin, and no other export is resolved for it.
C3_NoAbiExportIsNotPlugin ==
    \A l \in Lids :
        (Def(l).loadable /\ SymAbi \notin Def(l).exports)
        => /\ Outcomes(l) = <<"NotPlugin">>
           /\ \A sym \in AllExports \ {SymAbi} : Touched(l, sym) = {}

\* ------------------------------------------------------------------ C4
\* C4 (as claimed): a module whose make_serverplugin returns null is probed
\* as Server, Core and Controller in that order before it is rejected, and
\* LoadPlugin never reports success for it without a registered instance.
C4_NullFactoryProbesAllKinds ==
    \A l \in Lids :
        (\E i \in EvIdx(l, "call", SymMake) : trace[i].val = "null")
        => /\ KindsProbed(l) = <<"Server", "Core", "Controller">>
           /\ (loads[l].ret = "true" => loads[l].after > loads[l].before)

\* ------------------------------------------------------------------ C5
\* the Server probe of load l could not resolve its factory or destructor
ServerExportMissing(l) ==
    \E sym \in {SymMake, SymDelete} :
        \E i \in EvIdx(l, "resolve", sym) : trace[i].val # "fn"

C6_InitSurvivesEveryModule ==
    (op.name = "Init" /\ op.fs # "createFails")
    => /\ op.ret = "true"
       /\ Len(loads) = Len(op.dir)

\* ------------------------------------------------------------------ C7
WarningsFor(path) ==
    {i \in DOMAIN log : log[i].level = "warn" /\ log[i].path = path}

\* C7 (as claimed): a load that registers nothing makes LoadPlugin return
\* false and Init log exactly one warning for the module; LoadPlugin
\* returns true only when an instance was registered.
C7_FailureIsReportedOnce ==
    \A l \in Lids :
        /\ loads[l].ret = "true" => loads[l].after > loads[l].before
        /\ loads[l].after = loads[l].before
           => /\ loads[l].ret = "false"
              /\ op.name = "Init"
                 => Cardinality(WarningsFor(loads[l].path)) = 1

\* ------------------------------------------------------------------ C8
\* a module with every export, the host's version and a working factory
WellFormed(d) ==
    /\ d.loadable
    /\ d.exports = AllExports
    /\ d.abi = PLUGIN_ABI_VERSION
    /\ ~d.makeNull

\* C8: loading a well-formed module invokes its factory exactly once and
\* grows the registry by exactly one entry, the object that factory
\* handed back.
C8_GoodModuleRegistersOnce ==
    \A l \in Lids :
        WellFormed(Def(l))
        => /\ Cardinality(EvIdx(l, "call", SymMake)) = 1
           /\ loads[l].after = loads[l].before + 1
           /\ Len(g_ServerPlugins) >= loads[l].after
           /\ \A i \in EvIdx(l, "call", SymMake) :
                 g_ServerPlugins[loads[l].after].plugin = trace[i].obj

C8_Witness ==
    \E l \in Lids :
        /\ WellFormed(Def(l))
        /\ Outcomes(l) = <<"NoError">>
        /\ g_ServerPlugins[loads[l].after].plugin.mod = loads[l].path

\* ------------------------------------------------------------------ C9
DestructorCalls ==
    {i \in DOMAIN trace : trace[i].k = "call" /\ trace[i].sym = SymDelete}

\* C9 (as claimed): UnloadPlugins invokes the destructor of every
\* registered handle once and leaves the registry empty.
C9_UnloadDestroysAll ==
    op.name = "UnloadPlugins"
    => /\ g_ServerPlugins = <<>>
       /\ Cardinality(DestructorCalls) = Len(op.regBefore)

\* ------------------------------------------------------------------ C10
\* C10 (as claimed): every entry of the registry holds, next to the
\* handle, the destructor export and the module the handle came from.
C10_EntryCarriesDestructor ==
    \A i \in DOMAIN g_ServerPlugins :
        {"plugin", "destructor", "module"} \subseteq DOMAIN g_ServerPlugins[i]

\* ------------------------------------------------------------------ C11
\* C11 (as claimed): the registry never holds the same handle twice.
C11_NoDuplicateRegistration ==
    \A i, j \in DOMAIN g_ServerPlugins :
        i # j => g_ServerPlugins[i].plugin # g_ServerPlugins[j].plugin

\* ------------------------------------------------------------------ C12
\* C12 (as claimed): no operation drops a library that LoadPlugin mapped
\* from the loaded-library list.
C12_LibraryStaysLoaded ==
    [][\A i \in DOMAIN g_PluginSos :
          g_PluginSos[i] # EmptySo
          => /\ i \in DOMAIN g_PluginSos'
             /\ g_PluginSos'[i] = g_PluginSos[i]]_vars

\* ------------------------------------------------------------------ C13
\* C13: Init on an empty plugins directory, found or just created, runs
\* no handshake, leaves the registry as it was and returns true.
C13_EmptyDirectoryLoadsNothing ==
    (op.name = "Init" /\ op.fs \in {"exists", "created"} /\ op.dir = <<>>)
    => /\ op.ret = "true"
       /\ trace = <<>>
       /\ loads = <<>>
       /\ g_ServerPlugins = op.regBefore

C13_Witness ==
    /\ op.name = "Init"
    /\ op.fs = "created"
    /\ op.dir = <<>>
    /\ op.ret = "true"
    /\ g_ServerPlugins = <<>>

\* ------------------------------------------------------------------ C14
InitApiCalls ==
    {i \in DOMAIN trace : trace[i].k = "call" /\ trace[i].sym = SymInit}

\* C14: every invocation of init_api, whatever the module and the probe,
\* is handed the one static g_PluginApiImpl.
C14_OneHostServicesTable ==
    \A i \in InitApiCalls : trace[i].val = "g_PluginApiImpl"

C14_Witness ==
    \E i, j \in InitApiCalls :
        /\ trace[i].mod # trace[j].mod
        /\ trace[i].val = trace[j].val

\* ------------------------------------------------------------------ C17
KindOrder == <<"Server", "Core", "Controller">>

\* C17: every handshake ends after at most one probe per kind, the kinds
\* taken in the order Server, Core, Controller without a repeat, with at
\* most three factory invocations, and LoadPlugin ends with a result.
C17_HandshakeIsBounded ==
    \A l \in Lids :
        /\ Len(KindsProbed(l)) <= Len(KindOrder)
        /\ \A i \in DOMAIN KindsProbed(l) : KindsProbed(l)[i] = KindOrder[i]
        /\ Def(l).loadable => Len(KindsProbed(l)) >= 1
        /\ Cardinality(EvIdx(l, "call", SymMake)) <= Len(KindOrder)
        /\ loads[l].ret \in {"true", "false", Threw}

C17_Witness ==
    \E l \in Lids :
        /\ KindsProbed(l) = <<"Server", "Core">>
        /\ Outcomes(l) = <<"NotServerPlugin", "NoError">>

\* ------------------------------------------------------------------ C18
\* C18 (as claimed): a module with the host's ABI version but no init_api
\* ends its handshake with ExportNotFound; no factory or destructor is
\* resolved, nothing is registered and LoadPlugin returns false.
C18_NoInitApiIsExportNotFound ==
    \A l \in Lids :
        (/\ Def(l).loadable
         /\ SymAbi \in Def(l).exports
         /\ Def(l).abi = PLUGIN_ABI_VERSION
         /\ SymInit \notin Def(l).exports)
        => /\ Outcomes(l) = <<"ExportNotFound">>
           /\ Touched(l, SymMake) = {}
           /\ Touched(l, SymDelete) = {}
           /\ loads[l].after = loads[l].before
           /\ loads[l].ret = "false"

\* ------------------------------------------------------------------ C19
\* C19 (as claimed): when the handshake it ran returned NoError,
\* HandlePluginLoad returns NoError, so LoadPlugin returns true for every
\* module that registered an instance.
C19_NoErrorIsReturned ==
    \A l \in Lids :
        /\ (Outcomes(l) # <<>> /\ Outcomes(l)[Len(Outcomes(l))] = "NoError")
           => loads[l].res = "NoError"
        /\ loads[l].after > loads[l].before => loads[l].ret = "true"

\* ------------------------------------------------------------------ C20
\* C20 (as claimed): every registered handle is non-null and the library
\* that made it is still in the loaded-library list.
C20_HandleHasItsLibrary ==
    \A i \in DOMAIN g_ServerPlugins :
        /\ g_ServerPlugins[i].plugin # Null
        /\ \E j \in DOMAIN g_PluginSos :
              g_PluginSos[j] = g_ServerPlugins[i].plugin.mod

\* ------------------------------------------------------------------ C15
Absent(key) == key \notin DOMAIN store

\* C15: for a key that is absent, never set or set and removed, Exists()
\* answers false and As<T>() fails with NonExistentValue for every T; a
\* key is absent once Remove() has run on it.
C15_AbsentKey ==
    /\ storeOp.name = "Remove" => Absent(storeOp.key)
    /\ (storeOp.name = "Exists" /\ Absent(storeOp.key))
       => storeOp.result = "false"
    /\ (storeOp.name = "As" /\ Absent(storeOp.key))
       => storeOp.result = "NonExistentValue"

C15_Witness ==
    /\ storeOp.name = "As"
    /\ storeOp.key \in wasSet
    /\ Absent(storeOp.key)
    /\ storeOp.result = "NonExistentValue"

\* ------------------------------------------------------------------ C16
\* C16: while a key holds a value set as T, Exists() and Is<T>() answer
\* true, As<T>() yields the value, and As<U>() for another type U fails
\* with InvalidType.
C16_PresentKey ==
    /\ storeOp.name = "Set"
       => /\ ~Absent(storeOp.key)
          /\ store[storeOp.key] = [type |-> storeOp.type, val |-> storeOp.val]
    /\ (storeOp.name \in {"Exists", "Is", "As"} /\ ~Absent(storeOp.key))
       => LET held == store[storeOp.key]
          IN CASE storeOp.name = "Exists" -> storeOp.result = "true"
               [] storeOp.name = "Is" ->
                    (storeOp.type = held.type => storeOp.result = "true")
               [] OTHER ->
                    IF storeOp.type = held.type
                    THEN storeOp.result = "ok" /\ storeOp.val = held.val
                    ELSE storeOp.result = "InvalidType"

C16_Witness ==
    /\ storeOp.name = "As"
    /\ ~Absent(storeOp.key)
    /\ store[storeOp.key].type = "uint64"
    /\ storeOp.type = "string"
    /\ storeOp.result = "InvalidType"

====
